---- MODULE Spec2Model ----
(***************************************************************************)
(* cyColor.h: the four color value types Color, ColorA (32-bit float       *)
(* components) and Color24, Color32 (8-bit unsigned components), their     *)
(* conversions, queries, limit methods and scalar operators.               *)
(*                                                                         *)
(* A float component is an IEEE-754 binary32 value, modelled exactly as a  *)
(* record [s, m, e]: sign s, integer significand m < 2^24 and exponent e,  *)
(* with value (-1)^s * m * 2^e.  Arithmetic rounds to nearest, ties to     *)
(* even, as the default floating-point environment does.  All integer      *)
(* intermediates stay below 2^31.                                          *)
(***************************************************************************)
EXTENDS Integers, Sequences, FiniteSets, TLC

\* ------------------------------------------------------------------------
\* binary32 format (the type of r, g, b, a in Color and ColorA)
\* ------------------------------------------------------------------------
MantBits == 24
EMin     == 0 - 149
EMaxFin  == 104
ESpecial == 105

TwoP(n) == 2 ^ n

MkF(s, m, e) == [s |-> s, m |-> m, e |-> e]
FNaN      == MkF(0, 1, ESpecial)
FInf(s)   == MkF(s, 0, ESpecial)
FZero(s)  == MkF(s, 0, EMin)

IsNaN(x)    == x.e = ESpecial /\ x.m # 0
IsInf(x)    == x.e = ESpecial /\ x.m = 0
IsFiniteF(x) == x.e # ESpecial
IsZero(x)   == x.e # ESpecial /\ x.m = 0

RECURSIVE BitLen(_)
BitLen(n) == IF n = 0 THEN 0 ELSE 1 + BitLen(n \div 2)

\* Round-to-nearest-even of M * 2^e to binary32.  The lowest bit of M may be
\* a sticky bit standing for discarded lower bits; callers keep at least two
\* bits of M below the rounding position whenever it is set.
Pack(s, M, e) ==
  IF M = 0 THEN FZero(s)
  ELSE
    LET nb  == BitLen(M)
        sh0 == nb - MantBits
        sh  == IF e + sh0 < EMin THEN EMin - e ELSE sh0
    IN IF sh <= 0
       THEN IF e + sh > EMaxFin THEN FInf(s) ELSE MkF(s, M * TwoP(0 - sh), e + sh)
       ELSE IF sh > nb + 1 THEN FZero(s)
       ELSE
         LET q    == M \div TwoP(sh)
             rem  == M % TwoP(sh)
             half == TwoP(sh - 1)
             up   == rem > half \/ (rem = half /\ q % 2 = 1)
             q1   == IF up THEN q + 1 ELSE q
             q2   == IF q1 = TwoP(MantBits) THEN TwoP(MantBits - 1) ELSE q1
             e2   == IF q1 = TwoP(MantBits) THEN e + sh + 1 ELSE e + sh
         IN IF e2 > EMaxFin THEN FInf(s)
            ELSE IF q2 = 0 THEN FZero(s)
            ELSE MkF(s, q2, e2)

\* The float value of a small integer (the implicit int -> float conversion
\* of the literal 255 and of the uint8_t operands of r/255.0f).
IntToFloat(n) == IF n < 0 THEN Pack(1, 0 - n, 0) ELSE Pack(0, n, 0)

\* n * 2^(-k) as a float: how the model writes float literals such as 0.5f.
Dy(n, k) == IF n < 0 THEN Pack(1, 0 - n, 0 - k) ELSE Pack(0, n, 0 - k)

\* A significand shifted up to 24 bits (subnormal operands of * and /).
NormM(x) == x.m * TwoP(MantBits - BitLen(x.m))
NormE(x) == x.e - (MantBits - BitLen(x.m))

FNeg(x) == IF IsNaN(x) THEN FNaN ELSE MkF(1 - x.s, x.m, x.e)
FAbs(x) == IF IsNaN(x) THEN FNaN ELSE MkF(0, x.m, x.e)

\* x + y (operator + on float)
FAdd(x, y) ==
  IF IsNaN(x) \/ IsNaN(y) THEN FNaN
  ELSE IF IsInf(x) THEN (IF IsInf(y) /\ y.s # x.s THEN FNaN ELSE x)
  ELSE IF IsInf(y) THEN y
  ELSE IF IsZero(x) /\ IsZero(y) THEN FZero(IF x.s = 1 /\ y.s = 1 THEN 1 ELSE 0)
  ELSE IF IsZero(x) THEN y
  ELSE IF IsZero(y) THEN x
  ELSE
    LET hi  == IF x.e >= y.e THEN x ELSE y
        lo  == IF x.e >= y.e THEN y ELSE x
        d   == hi.e - lo.e
        A   == hi.m * 8
        B0  == lo.m * 8
        B   == IF d > 27 THEN 1
               ELSE LET q == B0 \div TwoP(d)
                        r == B0 % TwoP(d)
                    IN IF r # 0 /\ q % 2 = 0 THEN q + 1 ELSE q
        SA  == IF hi.s = 1 THEN 0 - A ELSE A
        SB  == IF lo.s = 1 THEN 0 - B ELSE B
        S   == SA + SB
    IN IF S = 0 THEN FZero(0)
       ELSE IF S < 0 THEN Pack(1, 0 - S, hi.e - 3)
       ELSE Pack(0, S, hi.e - 3)

\* x - y
FSub(x, y) == FAdd(x, FNeg(y))

\* x * y
FMul(x, y) ==
  IF IsNaN(x) \/ IsNaN(y) THEN FNaN
  ELSE LET s == IF x.s = y.s THEN 0 ELSE 1 IN
  IF IsInf(x) \/ IsInf(y)
  THEN (IF IsZero(x) \/ IsZero(y) THEN FNaN ELSE FInf(s))
  ELSE IF IsZero(x) \/ IsZero(y) THEN FZero(s)
  ELSE
    LET ma == NormM(x)
        mb == NormM(y)
        L  == TwoP(12)
        a1 == ma \div L
        a0 == ma % L
        b1 == mb \div L
        b0 == mb % L
        mid == a1 * b0 + a0 * b1
        lof == (mid % L) * L + a0 * b0
        hiw == a1 * b1 + (mid \div L) + (lof \div TwoP(24))
        low == lof % TwoP(24)
        top == hiw * 8 + (low \div TwoP(21))
        st  == low % TwoP(21) # 0
        M   == IF st /\ top % 2 = 0 THEN top + 1 ELSE top
    IN Pack(s, M, NormE(x) + NormE(y) + 21)

RECURSIVE LongDiv(_, _, _, _)
\* n more quotient bits of r / d appended to q; <<quotient, remainder>>
LongDiv(q, r, d, n) ==
  IF n = 0 THEN <<q, r>>
  ELSE LET r2 == 2 * r
       IN IF r2 >= d THEN LongDiv(2 * q + 1, r2 - d, d, n - 1)
          ELSE LongDiv(2 * q, r2, d, n - 1)

\* x / y
FDiv(x, y) ==
  IF IsNaN(x) \/ IsNaN(y) THEN FNaN
  ELSE LET s == IF x.s = y.s THEN 0 ELSE 1 IN
  IF IsInf(x) THEN (IF IsInf(y) THEN FNaN ELSE FInf(s))
  ELSE IF IsInf(y) THEN FZero(s)
  ELSE IF IsZero(y) THEN (IF IsZero(x) THEN FNaN ELSE FInf(s))
  ELSE IF IsZero(x) THEN FZero(s)
  ELSE
    LET ma == NormM(x)
        mb == NormM(y)
        qr == LongDiv(ma \div mb, ma % mb, mb, 26)
        Q  == qr[1]
        M  == IF qr[2] # 0 /\ Q % 2 = 0 THEN Q + 1 ELSE Q
    IN Pack(s, M, NormE(x) - NormE(y) - 26)

\* IEEE comparisons: every comparison with a NaN is false, -0 equals +0.
FLt(x, y) ==
  IF IsNaN(x) \/ IsNaN(y) THEN FALSE
  ELSE IF IsZero(x) /\ IsZero(y) THEN FALSE
  ELSE IF x.s # y.s THEN x.s = 1
  ELSE LET magLt(p, q) == IF p.e # q.e THEN p.e < q.e ELSE p.m < q.m
       IN IF x.s = 0 THEN magLt(x, y) ELSE magLt(y, x)
FEq(x, y) ==
  IF IsNaN(x) \/ IsNaN(y) THEN FALSE
  ELSE (IsZero(x) /\ IsZero(y)) \/ x = y
FLe(x, y) == FLt(x, y) \/ FEq(x, y)
FGt(x, y) == FLt(y, x)
FGe(x, y) == FLe(y, x)
\* x != y: true when x and y are unordered (a NaN), or one is less than the other
FNe(x, y) == IsNaN(x) \/ IsNaN(y) \/ FLt(x, y) \/ FGt(x, y)


\* ------------------------------------------------------------------------
\* float -> int conversion: int(x) truncates toward zero.  When the
\* truncated value is not representable in a 32-bit int (or x is NaN or
\* infinite) the behaviour is undefined; the outcomes are those of the
\* conversion instructions of the common targets: x86 cvttss2si gives
\* INT_MIN in every such case, AArch64 fcvtzs and RISC-V fcvt.w.s saturate,
\* and a NaN gives 0 on AArch64 and INT_MAX on RISC-V.
\* ------------------------------------------------------------------------
IntMax == 2147483647
IntMin == 0 - IntMax - 1

InIntRange(x) ==
  /\ IsFiniteF(x)
  /\ \/ x.m = 0
     \/ x.e + BitLen(x.m) <= 31
     \/ (x.s = 1 /\ x.m = TwoP(MantBits - 1) /\ x.e = 8)

Trunc(x) ==
  IF x.s = 1 /\ x.m = TwoP(MantBits - 1) /\ x.e = 8 THEN IntMin
  ELSE LET mag == IF x.e >= 0 THEN x.m * TwoP(x.e)
                  ELSE IF 0 - x.e > MantBits THEN 0
                  ELSE x.m \div TwoP(0 - x.e)
       IN IF x.s = 1 THEN 0 - mag ELSE mag

FloatToInt(x) ==
  IF InIntRange(x) THEN {Trunc(x)}
  ELSE IF IsNaN(x) THEN {IntMin, 0, IntMax}
  ELSE IF x.s = 1 THEN {IntMin}
  ELSE {IntMin, IntMax}

\* ------------------------------------------------------------------------
\* The four value types.  A value is the record of its components; in the
\* state it is kept under the name of its type ([Color |-> c], ...), and
\* arguments and results under the name of theirs ([f |-> x] a float,
\* [u |-> n] a uint8_t, [i |-> n] an int, [bool |-> v]).
\* ------------------------------------------------------------------------
MkColor(r, g, b)      == [r |-> r, g |-> g, b |-> b]
MkColorA(r, g, b, a)  == [r |-> r, g |-> g, b |-> b, a |-> a]
MkColor24(r, g, b)    == [r |-> r, g |-> g, b |-> b]
MkColor32(r, g, b, a) == [r |-> r, g |-> g, b |-> b, a |-> a]

AsColor(c)   == [Color |-> c]
AsColorA(c)  == [ColorA |-> c]
AsColor24(c) == [Color24 |-> c]
AsColor32(c) == [Color32 |-> c]
IsColor(o)   == DOMAIN o = {"Color"}
IsColorA(o)  == DOMAIN o = {"ColorA"}
IsColor24(o) == DOMAIN o = {"Color24"}
IsColor32(o) == DOMAIN o = {"Color32"}

VF(x) == [f |-> x]
VU(n) == [u |-> n]
VI(n) == [i |-> n]
VB(v) == [bool |-> v]

Byte == 0 .. 255

\* the scaling by 256 instead of 255
Scaled_By256(r) == FAdd(FMul(r, IntToFloat(256)), Dy(1, 1))
\* r*255+0.5f, evaluated in float
Scaled(r) == FAdd(FMul(r, IntToFloat(255)), Dy(1, 1))

\* Color24::ClampInt, Color24::FloatToByte.  FloatToByte is the set of bytes
\* the call can return: one byte unless the cast int(...) is undefined.
Color24_ClampInt(v) == IF v < 0 THEN 0 ELSE IF v > 255 THEN 255 ELSE v % 256
Color24_FloatToByte(r) == {Color24_ClampInt(v) : v \in FloatToInt(Scaled(r))}

\* Color32::ClampInt, Color32::FloatToByte
Color32_ClampInt(v) == IF v < 0 THEN 0 ELSE IF v > 255 THEN 255 ELSE v % 256
Color32_FloatToByte(r) == {Color32_ClampInt(v) : v \in FloatToInt(Scaled(r))}

\* the cast inside FloatToByte(r) is undefined
CastUB(r) == ~InIntRange(Scaled(r))

\* b/255.0f for a uint8_t b (tabulated once for the 256 bytes)
ByteOver255 == [b \in Byte |-> FDiv(IntToFloat(b), IntToFloat(255))]
ByteToFloat(b) == ByteOver255[b]

\* Color24 constructors and conversion methods
Color24_FromColor(c) ==
  {MkColor24(x, y, z) : x \in Color24_FloatToByte(c.r),
                        y \in Color24_FloatToByte(c.g),
                        z \in Color24_FloatToByte(c.b)}
Color24_FromColorA(c) ==
  {MkColor24(x, y, z) : x \in Color24_FloatToByte(c.r),
                        y \in Color24_FloatToByte(c.g),
                        z \in Color24_FloatToByte(c.b)}
\* the components taken in the order b, g, r
Color24_FromColor32_Swapped(c) == MkColor24(c.b, c.g, c.r)
Color24_FromColor32(c) == MkColor24(c.r, c.g, c.b)
Color24_ToColor(c)  == MkColor(ByteToFloat(c.r), ByteToFloat(c.g), ByteToFloat(c.b))
\* ToColorA with a transparent alpha
Color24_ToColorA_Transparent(c) ==
  MkColorA(ByteToFloat(c.r), ByteToFloat(c.g), ByteToFloat(c.b), IntToFloat(0))
Color24_ToColorA(c) == MkColorA(ByteToFloat(c.r), ByteToFloat(c.g), ByteToFloat(c.b), IntToFloat(1))

\* Color32 constructors and conversion methods
Color32_FromColor(c, _a) ==
  {MkColor32(x, y, z, w) : x \in Color32_FloatToByte(c.r),
                           y \in Color32_FloatToByte(c.g),
                           z \in Color32_FloatToByte(c.b),
                           w \in Color32_FloatToByte(_a)}
Color32_FromColorA(c) ==
  {MkColor32(x, y, z, w) : x \in Color32_FloatToByte(c.r),
                           y \in Color32_FloatToByte(c.g),
                           z \in Color32_FloatToByte(c.b),
                           w \in Color32_FloatToByte(c.a)}
Color32_FromColor24(c, _a) == MkColor32(c.r, c.g, c.b, _a)
Color32_ToColor(c)  == MkColor(ByteToFloat(c.r), ByteToFloat(c.g), ByteToFloat(c.b))
Color32_ToColorA(c) == MkColorA(ByteToFloat(c.r), ByteToFloat(c.g), ByteToFloat(c.b), ByteToFloat(c.a))

\* Color and ColorA conversion constructors
Color_FromColorA(c)  == MkColor(c.r, c.g, c.b)
Color_FromColor24(c) == Color24_ToColor(c)
Color_FromColor32(c) == Color32_ToColor(c)
ColorA_FromColor(c, _a) == MkColorA(c.r, c.g, c.b, _a)
ColorA_FromColor24(c, alpha) ==
  LET rgb == Color24_ToColor(c) IN MkColorA(rgb.r, rgb.g, rgb.b, alpha)
ColorA_FromColor32(c) == Color32_ToColorA(c)

\* ------------------------------------------------------------------------
\* Gray-scale methods and tests
\* ------------------------------------------------------------------------
F_Three == IntToFloat(3)

Color_Min(c)  == IF FLt(c.r, c.g) THEN (IF FLt(c.r, c.b) THEN c.r ELSE c.b)
                 ELSE (IF FLt(c.g, c.b) THEN c.g ELSE c.b)
Color_Max(c)  == IF FGt(c.r, c.g) THEN (IF FGt(c.r, c.b) THEN c.r ELSE c.b)
                 ELSE (IF FGt(c.g, c.b) THEN c.g ELSE c.b)
Color_IsNegative(c) == FLt(c.r, FZero(0)) \/ FLt(c.g, FZero(0)) \/ FLt(c.b, FZero(0))

ColorA_Sum(c)  == FAdd(FAdd(c.r, c.g), c.b)
ColorA_Gray(c) == FDiv(ColorA_Sum(c), F_Three)
\* the minimum of r, g, b only
ColorA_Min_NoAlpha(c) == Color_Min(c)
ColorA_Min(c)  == LET mrg == IF FLt(c.r, c.g) THEN c.r ELSE c.g
                      mba == IF FLt(c.b, c.a) THEN c.b ELSE c.a
                  IN IF FLt(mrg, mba) THEN mrg ELSE mba
ColorA_Max(c)  == LET mrg == IF FGt(c.r, c.g) THEN c.r ELSE c.g
                      mba == IF FGt(c.b, c.a) THEN c.b ELSE c.a
                  IN IF FGt(mrg, mba) THEN mrg ELSE mba
ColorA_IsNegative(c) ==
  FLt(c.r, FZero(0)) \/ FLt(c.g, FZero(0)) \/ FLt(c.b, FZero(0)) \/ FLt(c.a, FZero(0))

Color24_Sum(c)  == c.r + c.g + c.b
\* the sum divided by 3 without the rounding term
Color24_Gray_Truncating(c) == (Color24_Sum(c) \div 3) % 256
Color24_Gray(c) == ((Color24_Sum(c) + 1) \div 3) % 256
Color24_Min(c)  == IF c.r < c.g THEN (IF c.r < c.b THEN c.r ELSE c.b)
                   ELSE (IF c.g < c.b THEN c.g ELSE c.b)
Color24_Max(c)  == IF c.r > c.g THEN (IF c.r > c.b THEN c.r ELSE c.b)
                   ELSE (IF c.g > c.b THEN c.g ELSE c.b)

Color32_Sum(c)  == c.r + c.g + c.b
Color32_Gray(c) == ((Color32_Sum(c) + 1) \div 3) % 256
Color32_Min(c)  == LET mrg == IF c.r < c.g THEN c.r ELSE c.g
                       mba == IF c.b < c.a THEN c.b ELSE c.a
                   IN IF mrg < mba THEN mrg ELSE mba
Color32_Max(c)  == LET mrg == IF c.r > c.g THEN c.r ELSE c.g
                       mba == IF c.b > c.a THEN c.b ELSE c.a
                   IN IF mrg > mba THEN mrg ELSE mba

\* ------------------------------------------------------------------------
\* Input values
\* ------------------------------------------------------------------------
F_One  == IntToFloat(1)
F_Half == Dy(1, 1)
F_1e10 == Pack(0, 9765625, 10)

\* -1, 0.5, 1, 2
FloatCore == {IntToFloat(0 - 1), F_Half, F_One, IntToFloat(2)}
\* +0, -0, -2^-10, the largest float whose scaled value fits an int
\* (8421504), the next float, 1e10, -1e10, +inf, -inf, NaN
FloatEdge == {FZero(0), FZero(1), Dy(0 - 1, 10), IntToFloat(8421504), IntToFloat(8421505),
              F_1e10, FNeg(F_1e10), FInf(0), FInf(1), FNaN}
FloatVals == FloatCore \cup FloatEdge

\* every byte value in every component position
Color24Family == {MkColor24(n, 255 - n, (n + 85) % 256) : n \in Byte}
Color32Family == {MkColor32(n, 255 - n, (n + 85) % 256, (n + 170) % 256) : n \in Byte}

ConvColor ==
  {MkColor(x, y, z) : x \in FloatCore, y \in FloatCore, z \in FloatCore}
  \cup {MkColor(x, F_Half, F_One) : x \in FloatEdge}
  \cup {MkColor(F_One, x, F_Half) : x \in FloatEdge}
  \cup {MkColor(F_Half, F_One, x) : x \in FloatEdge}
ConvColorA ==
  {MkColorA(x, F_Half, F_One, IntToFloat(2)) : x \in FloatVals}
  \cup {MkColorA(IntToFloat(2), x, F_Half, F_One) : x \in FloatVals}
  \cup {MkColorA(F_One, IntToFloat(2), x, F_Half) : x \in FloatVals}
  \cup {MkColorA(F_Half, F_One, IntToFloat(2), x) : x \in FloatVals}
ConvColor24 ==
  Color24Family \cup {MkColor24(0, 0, 0), MkColor24(255, 255, 255), MkColor24(1, 2, 3)}
ConvColor32 ==
  Color32Family \cup {MkColor32(0, 0, 0, 255), MkColor32(255, 255, 255, 255), MkColor32(1, 2, 3, 4)}

\* ------------------------------------------------------------------------
\* State: the value at hand (obj), the value the last operation was applied
\* to (old), that operation and its arguments (op, args), what it returned
\* (ret), and whether it ran into undefined behaviour (ub).
\* ------------------------------------------------------------------------
VARIABLES obj, old, op, args, ret, ub
vars == <<obj, old, op, args, ret, ub>>

NoRet == <<>>

Start(S) ==
  /\ obj \in S
  /\ old = obj
  /\ op = "init"
  /\ args = <<>>
  /\ ret = NoRet
  /\ ub = FALSE

\* a constructor or conversion: the result replaces the value at hand
Becomes(name, a, v, u) ==
  /\ obj' = v
  /\ old' = obj
  /\ op' = name
  /\ args' = a
  /\ ret' = NoRet
  /\ ub' = u

\* --- conversions --------------------------------------------------------
Color24FromColor ==
  /\ IsColor(obj)
  /\ LET c == obj.Color IN
     \E v \in Color24_FromColor(c) :
       Becomes("Color24(Color)", <<>>, AsColor24(v), CastUB(c.r) \/ CastUB(c.g) \/ CastUB(c.b))
Color24FromColorA ==
  /\ IsColorA(obj)
  /\ LET c == obj.ColorA IN
     \E v \in Color24_FromColorA(c) :
       Becomes("Color24(ColorA)", <<>>, AsColor24(v), CastUB(c.r) \/ CastUB(c.g) \/ CastUB(c.b))
Color24FromColor32 ==
  /\ IsColor32(obj)
  /\ Becomes("Color24(Color32)", <<>>, AsColor24(Color24_FromColor32(obj.Color32)), FALSE)
Color24ToColor ==
  /\ IsColor24(obj)
  /\ Becomes("Color24::ToColor", <<>>, AsColor(Color24_ToColor(obj.Color24)), FALSE)
Color24ToColorA ==
  /\ IsColor24(obj)
  /\ Becomes("Color24::ToColorA", <<>>, AsColorA(Color24_ToColorA(obj.Color24)), FALSE)

\* alpha arguments given explicitly; a call without one takes the default of
\* the declaration, 1 (1.0f) for a float alpha and 255 for a byte alpha
AlphaFloats == {F_Half, IntToFloat(2)}
AlphaBytes  == {0, 77}

Color32FromColor ==
  /\ IsColor(obj)
  /\ LET c == obj.Color IN
     \/ \E _a \in AlphaFloats : \E v \in Color32_FromColor(c, _a) :
          Becomes("Color32(Color,float)", <<VF(_a)>>, AsColor32(v),
                  CastUB(c.r) \/ CastUB(c.g) \/ CastUB(c.b) \/ CastUB(_a))
     \/ \E v \in Color32_FromColor(c, IntToFloat(1)) :
          Becomes("Color32(Color)", <<>>, AsColor32(v),
                  CastUB(c.r) \/ CastUB(c.g) \/ CastUB(c.b) \/ CastUB(IntToFloat(1)))
Color32FromColorA ==
  /\ IsColorA(obj)
  /\ LET c == obj.ColorA IN
     \E v \in Color32_FromColorA(c) :
       Becomes("Color32(ColorA)", <<>>, AsColor32(v),
               CastUB(c.r) \/ CastUB(c.g) \/ CastUB(c.b) \/ CastUB(c.a))
Color32FromColor24 ==
  /\ IsColor24(obj)
  /\ \/ \E _a \in AlphaBytes :
          Becomes("Color32(Color24,uint8_t)", <<VU(_a)>>,
                  AsColor32(Color32_FromColor24(obj.Color24, _a)), FALSE)
     \/ Becomes("Color32(Color24)", <<>>,
                AsColor32(Color32_FromColor24(obj.Color24, 255)), FALSE)
Color32ToColor ==
  /\ IsColor32(obj)
  /\ Becomes("Color32::ToColor", <<>>, AsColor(Color32_ToColor(obj.Color32)), FALSE)
Color32ToColorA ==
  /\ IsColor32(obj)
  /\ Becomes("Color32::ToColorA", <<>>, AsColorA(Color32_ToColorA(obj.Color32)), FALSE)

ColorFromColorA ==
  /\ IsColorA(obj)
  /\ Becomes("Color(ColorA)", <<>>, AsColor(Color_FromColorA(obj.ColorA)), FALSE)
ColorFromColor24 ==
  /\ IsColor24(obj)
  /\ Becomes("Color(Color24)", <<>>, AsColor(Color_FromColor24(obj.Color24)), FALSE)
ColorFromColor32 ==
  /\ IsColor32(obj)
  /\ Becomes("Color(Color32)", <<>>, AsColor(Color_FromColor32(obj.Color32)), FALSE)
ColorAFromColor ==
  /\ IsColor(obj)
  /\ \/ \E _a \in AlphaFloats :
          Becomes("ColorA(Color,float)", <<VF(_a)>>,
                  AsColorA(ColorA_FromColor(obj.Color, _a)), FALSE)
     \/ Becomes("ColorA(Color)", <<>>,
                AsColorA(ColorA_FromColor(obj.Color, IntToFloat(1))), FALSE)
ColorAFromColor24 ==
  /\ IsColor24(obj)
  /\ \/ \E _a \in AlphaFloats :
          Becomes("ColorA(Color24,float)", <<VF(_a)>>,
                  AsColorA(ColorA_FromColor24(obj.Color24, _a)), FALSE)
     \/ Becomes("ColorA(Color24)", <<>>,
                AsColorA(ColorA_FromColor24(obj.Color24, IntToFloat(1))), FALSE)
ColorAFromColor32 ==
  /\ IsColor32(obj)
  /\ Becomes("ColorA(Color32)", <<>>, AsColorA(ColorA_FromColor32(obj.Color32)), FALSE)

Init ==
  \/ Start({AsColor(c) : c \in ConvColor})
  \/ Start({AsColorA(c) : c \in ConvColorA})
  \/ Start({AsColor24(c) : c \in ConvColor24})
  \/ Start({AsColor32(c) : c \in ConvColor32})

Next ==
  \/ Color24FromColor
  \/ Color24FromColorA
  \/ Color24FromColor32
  \/ Color24ToColor
  \/ Color24ToColorA
  \/ Color32FromColor
  \/ Color32FromColorA
  \/ Color32FromColor24
  \/ Color32ToColor
  \/ Color32ToColorA
  \/ ColorFromColorA
  \/ ColorFromColor24
  \/ ColorFromColor32
  \/ ColorAFromColor
  \/ ColorAFromColor24
  \/ ColorAFromColor32

Spec == Init /\ [][Next]_vars

\* ------------------------------------------------------------------------
\* Float-to-byte conversions
\* ------------------------------------------------------------------------
FloatToByteOps ==
  {"Color24(Color)", "Color24(ColorA)", "Color32(Color,float)", "Color32(Color)", "Color32(ColorA)"}

\* the value inside a typed state value
Inner(o) ==
  IF IsColor(o) THEN o.Color ELSE IF IsColorA(o) THEN o.ColorA
  ELSE IF IsColor24(o) THEN o.Color24 ELSE o.Color32

\* the <<float input, byte output>> pairs of the conversion that produced obj
ConvertedPairs ==
  LET src == Inner(old)
      dst == Inner(obj)
  IN {<<src.r, dst.r>>, <<src.g, dst.g>>, <<src.b, dst.b>>}
     \cup (IF op = "Color32(Color,float)" THEN {<<args[1].f, dst.a>>} ELSE {})
     \cup (IF op = "Color32(Color)" THEN {<<IntToFloat(1), dst.a>>} ELSE {})
     \cup (IF op = "Color32(ColorA)" THEN {<<src.a, dst.a>>} ELSE {})

\* x*255+0.5f truncated and clamped, for an x whose scaled value fits an int
RoundedAndClamped(x, y) ==
  InIntRange(Scaled(x)) =>
    LET v == Trunc(Scaled(x)) IN y = (IF v < 0 THEN 0 ELSE IF v > 255 THEN 255 ELSE v)

\* C1: every byte produced from a float component x is x*255 rounded (add
\* 0.5, truncate) and clamped into [0,255]: it is in 0..255, it is 255 for
\* every x >= 1 and 0 for every x <= 0.
C1_FloatToByteClamps ==
  op \in FloatToByteOps =>
    \A p \in ConvertedPairs :
      /\ p[2] \in Byte
      /\ RoundedAndClamped(p[1], p[2])
      /\ FGe(p[1], F_One) => p[2] = 255
      /\ FLe(p[1], FZero(0)) => p[2] = 0

\* C3: every float-to-byte conversion completes with a defined byte: the
\* cast it performs is never undefined, whatever the component (scaled value
\* outside the range of int, infinite or NaN).
C3_ConversionDefined ==
  op \in FloatToByteOps =>
    /\ ~ub
    /\ \A p \in ConvertedPairs : p[2] \in Byte /\ Cardinality(Color24_FloatToByte(p[1])) = 1

\* C2: byte -> float -> byte is the identity: Color24(c.ToColor()) = c for
\* every Color24 c and Color32(c.ToColorA()) = c for every Color32 c, alpha
\* included, with no other outcome possible.
C2_ByteFloatByteIdentity ==
  [][ /\ (op = "Color24::ToColor" /\ op' = "Color24(Color)") => (obj' = old /\ ~ub')
      /\ (op = "Color32::ToColorA" /\ op' = "Color32(ColorA)") => (obj' = old /\ ~ub') ]_vars

\* a Color32 came back from its ColorA
C2_Witness ==
  /\ op = "Color32(ColorA)"
  /\ obj = AsColor32(MkColor32(127, 128, 212, 41))
  /\ old = AsColorA(Color32_ToColorA(obj.Color32))

\* C4: Color24 <-> Color32 keeps r, g, b as they are: Color24(Color32(c, a))
\* = c, and Color24(d) has the r, g, b of d.
C4_ByteToBytePreserves ==
  /\ op = "Color32(Color24,uint8_t)" =>
       LET c == old.Color24
           d == obj.Color32
       IN /\ d.r = c.r /\ d.g = c.g /\ d.b = c.b /\ d.a = args[1].u
          /\ Color24_FromColor32(d) = c
  /\ op = "Color24(Color32)" =>
       LET d == old.Color32
           c == obj.Color24
       IN /\ DOMAIN c = {"r", "g", "b"}
          /\ c.r = d.r /\ c.g = d.g /\ c.b = d.b

C4_Witness ==
  /\ op = "Color24(Color32)"
  /\ old = AsColor32(MkColor32(3, 252, 88, 77))
  /\ obj = AsColor24(MkColor24(3, 252, 88))

\* r, g and b of y are those of x
SameRGB(x, y) == x.r = y.r /\ x.g = y.g /\ x.b = y.b

\* C11: a conversion that adds an alpha channel without an explicit alpha
\* argument gives an opaque color: alpha 1.0 in a ColorA built from a Color
\* or a Color24 (constructor or Color24::ToColorA), alpha 255 in a Color32
\* built from a Color24 or a Color; r, g, b are those of the conversion
\* without alpha.
C11_DefaultAlphaOpaque ==
  /\ op = "ColorA(Color)" =>
       obj.ColorA.a = IntToFloat(1) /\ SameRGB(obj.ColorA, old.Color)
  /\ op = "ColorA(Color24)" =>
       obj.ColorA.a = IntToFloat(1) /\ SameRGB(obj.ColorA, Color_FromColor24(old.Color24))
  /\ op = "Color24::ToColorA" =>
       obj.ColorA.a = IntToFloat(1) /\ SameRGB(obj.ColorA, Color24_ToColor(old.Color24))
  /\ op = "Color32(Color24)" =>
       obj.Color32.a = 255 /\ SameRGB(obj.Color32, old.Color24)
  /\ op = "Color32(Color)" =>
       /\ obj.Color32.a = 255
       /\ \E v \in Color24_FromColor(old.Color) : SameRGB(obj.Color32, v)

C11_Witness ==
  /\ op = "Color32(Color)"
  /\ args = <<>>
  /\ old = AsColor(MkColor(F_Half, F_One, IntToFloat(2)))
  /\ obj = AsColor32(MkColor32(128, 255, 255, 255))

\* ------------------------------------------------------------------------
\* Queries: Min and Max of each type, Sum and Gray of ColorA, Color24 and
\* Color32.  The value at hand is left as it is and the result is returned.
\* ------------------------------------------------------------------------
Returns(name, a, v) ==
  /\ obj' = obj
  /\ old' = obj
  /\ op' = name
  /\ args' = a
  /\ ret' = v
  /\ ub' = FALSE

ColorMin   == IsColor(obj)   /\ Returns("Color::Min",    <<>>, VF(Color_Min(obj.Color)))
ColorMax   == IsColor(obj)   /\ Returns("Color::Max",    <<>>, VF(Color_Max(obj.Color)))
ColorASum  == IsColorA(obj)  /\ Returns("ColorA::Sum",   <<>>, VF(ColorA_Sum(obj.ColorA)))
ColorAGray == IsColorA(obj)  /\ Returns("ColorA::Gray",  <<>>, VF(ColorA_Gray(obj.ColorA)))
ColorAMin  == IsColorA(obj)  /\ Returns("ColorA::Min",   <<>>, VF(ColorA_Min(obj.ColorA)))
ColorAMax  == IsColorA(obj)  /\ Returns("ColorA::Max",   <<>>, VF(ColorA_Max(obj.ColorA)))
Color24Sum  == IsColor24(obj) /\ Returns("Color24::Sum",  <<>>, VI(Color24_Sum(obj.Color24)))
Color24Gray == IsColor24(obj) /\ Returns("Color24::Gray", <<>>, VU(Color24_Gray(obj.Color24)))
Color24Min  == IsColor24(obj) /\ Returns("Color24::Min",  <<>>, VU(Color24_Min(obj.Color24)))
Color24Max  == IsColor24(obj) /\ Returns("Color24::Max",  <<>>, VU(Color24_Max(obj.Color24)))
Color32Sum  == IsColor32(obj) /\ Returns("Color32::Sum",  <<>>, VI(Color32_Sum(obj.Color32)))
Color32Gray == IsColor32(obj) /\ Returns("Color32::Gray", <<>>, VU(Color32_Gray(obj.Color32)))
Color32Min  == IsColor32(obj) /\ Returns("Color32::Min",  <<>>, VU(Color32_Min(obj.Color32)))
Color32Max  == IsColor32(obj) /\ Returns("Color32::Max",  <<>>, VU(Color32_Max(obj.Color32)))

\* -1, 0, 0.5, 2, +inf, NaN
QueryFloats == {IntToFloat(0 - 1), FZero(0), F_Half, IntToFloat(2), FInf(0), FNaN}

\* one Color24 for every value of Sum(), 0..765
SumFamily ==
  {LET r == IF n > 255 THEN 255 ELSE n
       g == IF n - r > 255 THEN 255 ELSE n - r
   IN MkColor24(r, g, n - r - g) : n \in 0 .. 765}

QueryColor   == {MkColor(x, y, z) : x \in QueryFloats, y \in QueryFloats, z \in QueryFloats}
QueryColorA  == {MkColorA(x, y, z, w) : x \in QueryFloats, y \in QueryFloats,
                                        z \in QueryFloats, w \in QueryFloats}
QueryColor24 == SumFamily \cup Color24Family
QueryColor32 == Color32Family
                \cup {MkColor32(c.r, c.g, c.b, w) : c \in SumFamily, w \in {0, 255}}

InitQuery ==
  \/ Start({AsColor(c) : c \in QueryColor})
  \/ Start({AsColorA(c) : c \in QueryColorA})
  \/ Start({AsColor24(c) : c \in QueryColor24})
  \/ Start({AsColor32(c) : c \in QueryColor32})

NextQuery ==
  \/ ColorMin \/ ColorMax
  \/ ColorASum \/ ColorAGray \/ ColorAMin \/ ColorAMax
  \/ Color24Sum \/ Color24Gray \/ Color24Min \/ Color24Max
  \/ Color32Sum \/ Color32Gray \/ Color32Min \/ Color32Max

SpecQuery == InitQuery /\ [][NextQuery]_vars

\* C5: Gray() of a Color24 or Color32, computed as (Sum()+1)/3, is Sum()/3
\* rounded to the nearest integer, with Sum() = r+g+b in 0..765; it fits a
\* byte without truncation and is 255 for (255,255,255).
C5_GrayRoundsSumOver3 ==
  op \in {"Color24::Gray", "Color32::Gray"} =>
    LET c == Inner(obj)
        S == c.r + c.g + c.b
        g == ret.u
    IN /\ S \in 0 .. 765
       /\ g = (S + 1) \div 3
       /\ 3 * g - S \in {0 - 1, 0, 1}
       /\ g \in Byte
       /\ S = 765 => g = 255

C5_Witness ==
  /\ op = "Color24::Gray"
  /\ obj = AsColor24(MkColor24(255, 255, 255))
  /\ ret = VU(255)

\* the stored components of a value
Stored(o) ==
  LET c == Inner(o)
  IN IF IsColorA(o) \/ IsColor32(o) THEN {c.r, c.g, c.b, c.a} ELSE {c.r, c.g, c.b}
IsFloatType(o) == IsColor(o) \/ IsColorA(o)
MinOps == {"Color::Min", "ColorA::Min", "Color24::Min", "Color32::Min"}
MaxOps == {"Color::Max", "ColorA::Max", "Color24::Max", "Color32::Max"}
\* the value returned, whatever its type
RetVal == IF IsFloatType(obj) THEN ret.f ELSE ret.u
LeqVal(x, y) == IF IsFloatType(obj) THEN FLe(x, y) ELSE x <= y

\* Sum() and Gray() of ColorA and Color32 are the same for every alpha
AlphaIndependent ==
  /\ op = "ColorA::Sum"  => \A w \in QueryFloats : ColorA_Sum([obj.ColorA EXCEPT !.a = w]) = ret.f
  /\ op = "ColorA::Gray" => \A w \in QueryFloats : ColorA_Gray([obj.ColorA EXCEPT !.a = w]) = ret.f
  /\ op = "Color32::Sum"  => \A w \in Byte : Color32_Sum([obj.Color32 EXCEPT !.a = w]) = ret.i
  /\ op = "Color32::Gray" => \A w \in Byte : Color32_Gray([obj.Color32 EXCEPT !.a = w]) = ret.u

\* C10 as stated: Min() and Max() return one stored component, Min() <= every
\* stored component <= Max() (alpha included for ColorA and Color32), and
\* Sum() and Gray() of the four-component types do not depend on alpha.
C10_MinMaxBoundAll ==
  /\ op \in MinOps => RetVal \in Stored(obj) /\ \A x \in Stored(obj) : LeqVal(RetVal, x)
  /\ op \in MaxOps => RetVal \in Stored(obj) /\ \A x \in Stored(obj) : LeqVal(x, RetVal)
  /\ AlphaIndependent

NoNaN(o) == IsFloatType(o) => \A x \in Stored(o) : ~IsNaN(x)

\* C10, amended: Min() and Max() return one stored component; when no stored
\* component is a NaN, Min() <= every stored component <= Max(); Sum() and
\* Gray() of the four-component types do not depend on alpha.
C10_MinMaxBoundOrdered ==
  /\ op \in MinOps =>
       /\ RetVal \in Stored(obj)
       /\ NoNaN(obj) => \A x \in Stored(obj) : LeqVal(RetVal, x)
  /\ op \in MaxOps =>
       /\ RetVal \in Stored(obj)
       /\ NoNaN(obj) => \A x \in Stored(obj) : LeqVal(x, RetVal)
  /\ AlphaIndependent

\* the alpha of a ColorA is its minimum
C10_Witness ==
  /\ op = "ColorA::Min"
  /\ obj = AsColorA(MkColorA(F_Half, IntToFloat(2), FInf(0), IntToFloat(0 - 1)))
  /\ ret = VF(IntToFloat(0 - 1))

\* ------------------------------------------------------------------------
\* Generic template methods and limit methods
\* ------------------------------------------------------------------------
\* cy::Max and cy::Min of cyCore.h, on floats and on uint8_t
cy_Max(v1, v2)   == IF FGe(v1, v2) THEN v1 ELSE v2
cy_Min(v1, v2)   == IF FLe(v1, v2) THEN v1 ELSE v2
cy_MaxU8(v1, v2) == IF v1 >= v2 THEN v1 ELSE v2
cy_MinU8(v1, v2) == IF v1 <= v2 THEN v1 ELSE v2

\* the callables handed to Apply and GetApplied: std::abs, a negating lambda,
\* and the lambdas of ClampMin and ClampMax with the limit they capture
Std_abs == [kind |-> "std::abs"]
Negate  == [kind |-> "negate"]
Lambda_ClampMin(limitMin) == [kind |-> "cy::Max", limit |-> limitMin]
Lambda_ClampMax(limitMax) == [kind |-> "cy::Min", limit |-> limitMax]
Call(func, v) ==
  CASE func.kind = "std::abs" -> FAbs(v)
    [] func.kind = "negate"   -> FNeg(v)
    [] func.kind = "cy::Max"  -> cy_Max(v, func.limit)
    [] func.kind = "cy::Min"  -> cy_Min(v, func.limit)
VFn(func) == [func |-> func.kind]

Color_Apply(c, func) == MkColor(Call(func, c.r), Call(func, c.g), Call(func, c.b))
\* GetApplied works on a copy: the object itself and the value returned
Color_GetApplied(c, func) == [this |-> c, result |-> Color_Apply(c, func)]
Color_ClampMin(c, limitMin) == Color_Apply(c, Lambda_ClampMin(limitMin))
Color_ClampMax(c, limitMax) == Color_Apply(c, Lambda_ClampMax(limitMax))
\* only the lower bound applied
Color_Clamp_MinOnly(c, limitMin, limitMax) == Color_ClampMin(c, limitMin)
Color_Clamp(c, limitMin, limitMax) == Color_ClampMax(Color_ClampMin(c, limitMin), limitMax)
Color_Abs(c) == Color_Apply(c, Std_abs)

\* Apply that also assigns a
ColorA_Apply_WithAlpha(c, func) ==
  MkColorA(Call(func, c.r), Call(func, c.g), Call(func, c.b), Call(func, c.a))
ColorA_Apply(c, func) ==
  [c EXCEPT !.r = Call(func, c.r), !.g = Call(func, c.g), !.b = Call(func, c.b)]
ColorA_GetApplied(c, func) == [this |-> c, result |-> ColorA_Apply(c, func)]
ColorA_ClampMin(c, limitMin) == ColorA_Apply(c, Lambda_ClampMin(limitMin))
ColorA_ClampMax(c, limitMax) == ColorA_Apply(c, Lambda_ClampMax(limitMax))
ColorA_Clamp(c, limitMin, limitMax) == ColorA_ClampMax(ColorA_ClampMin(c, limitMin), limitMax)
ColorA_Abs(c) == ColorA_Apply(c, Std_abs)

Color24_ClampMin(c, limitMin) ==
  MkColor24(cy_MaxU8(c.r, limitMin), cy_MaxU8(c.g, limitMin), cy_MaxU8(c.b, limitMin))
Color24_ClampMax(c, limitMax) ==
  MkColor24(cy_MinU8(c.r, limitMax), cy_MinU8(c.g, limitMax), cy_MinU8(c.b, limitMax))
Color24_Clamp(c, limitMin, limitMax) == Color24_ClampMax(Color24_ClampMin(c, limitMin), limitMax)

Color32_ClampMin(c, limitMin) ==
  MkColor32(cy_MaxU8(c.r, limitMin), cy_MaxU8(c.g, limitMin),
            cy_MaxU8(c.b, limitMin), cy_MaxU8(c.a, limitMin))
Color32_ClampMax(c, limitMax) ==
  MkColor32(cy_MinU8(c.r, limitMax), cy_MinU8(c.g, limitMax),
            cy_MinU8(c.b, limitMax), cy_MinU8(c.a, limitMax))
\* the upper bound applied first
Color32_Clamp_MaxFirst(c, limitMin, limitMax) ==
  Color32_ClampMin(Color32_ClampMax(c, limitMax), limitMin)
Color32_Clamp(c, limitMin, limitMax) == Color32_ClampMax(Color32_ClampMin(c, limitMin), limitMax)

\* the free functions Abs(Color const&) and Abs(ColorA const&)
Abs_Color(c)  == Color_GetApplied(c, Std_abs).result
Abs_ColorA(c) == ColorA_GetApplied(c, Std_abs).result

Funcs == {Std_abs, Negate}

\* a call that leaves the value at hand as self and returns v
Calls(name, a, self, v) ==
  /\ obj' = self
  /\ old' = obj
  /\ op' = name
  /\ args' = a
  /\ ret' = v
  /\ ub' = FALSE

\* a void method that changes the value at hand
Mutates(name, a, v) == Calls(name, a, v, NoRet)

\* bounds handed to the limit methods; 0.0f and 1.0f, 0 and 255 are the defaults
LimitFloats == {FZero(0), F_One, F_Half, IntToFloat(0 - 1)}
LimitBytes  == {0, 255, 100, 200}

ColorClamp ==
  /\ IsColor(obj)
  /\ \E lo \in LimitFloats, hi \in LimitFloats :
       Mutates("Color::Clamp", <<VF(lo), VF(hi)>>, AsColor(Color_Clamp(obj.Color, lo, hi)))
ColorClampMin ==
  /\ IsColor(obj)
  /\ \E lo \in LimitFloats :
       Mutates("Color::ClampMin", <<VF(lo)>>, AsColor(Color_ClampMin(obj.Color, lo)))
ColorClampMax ==
  /\ IsColor(obj)
  /\ \E hi \in LimitFloats :
       Mutates("Color::ClampMax", <<VF(hi)>>, AsColor(Color_ClampMax(obj.Color, hi)))
ColorAbs ==
  /\ IsColor(obj)
  /\ Mutates("Color::Abs", <<>>, AsColor(Color_Abs(obj.Color)))
ColorApply ==
  /\ IsColor(obj)
  /\ \E func \in Funcs :
       Mutates("Color::Apply", <<VFn(func)>>, AsColor(Color_Apply(obj.Color, func)))
ColorGetApplied ==
  /\ IsColor(obj)
  /\ \E func \in Funcs :
       LET res == Color_GetApplied(obj.Color, func)
       IN Calls("Color::GetApplied", <<VFn(func)>>, AsColor(res.this), AsColor(res.result))
AbsColor ==
  /\ IsColor(obj)
  /\ Returns("Abs(Color)", <<>>, AsColor(Abs_Color(obj.Color)))

ColorAClamp ==
  /\ IsColorA(obj)
  /\ \E lo \in LimitFloats, hi \in LimitFloats :
       Mutates("ColorA::Clamp", <<VF(lo), VF(hi)>>, AsColorA(ColorA_Clamp(obj.ColorA, lo, hi)))
ColorAClampMin ==
  /\ IsColorA(obj)
  /\ \E lo \in LimitFloats :
       Mutates("ColorA::ClampMin", <<VF(lo)>>, AsColorA(ColorA_ClampMin(obj.ColorA, lo)))
ColorAClampMax ==
  /\ IsColorA(obj)
  /\ \E hi \in LimitFloats :
       Mutates("ColorA::ClampMax", <<VF(hi)>>, AsColorA(ColorA_ClampMax(obj.ColorA, hi)))
ColorAAbs ==
  /\ IsColorA(obj)
  /\ Mutates("ColorA::Abs", <<>>, AsColorA(ColorA_Abs(obj.ColorA)))
ColorAApply ==
  /\ IsColorA(obj)
  /\ \E func \in Funcs :
       Mutates("ColorA::Apply", <<VFn(func)>>, AsColorA(ColorA_Apply(obj.ColorA, func)))
ColorAGetApplied ==
  /\ IsColorA(obj)
  /\ \E func \in Funcs :
       LET res == ColorA_GetApplied(obj.ColorA, func)
       IN Calls("ColorA::GetApplied", <<VFn(func)>>, AsColorA(res.this), AsColorA(res.result))
AbsColorA ==
  /\ IsColorA(obj)
  /\ Returns("Abs(ColorA)", <<>>, AsColorA(Abs_ColorA(obj.ColorA)))

Color24Clamp ==
  /\ IsColor24(obj)
  /\ \E lo \in LimitBytes, hi \in LimitBytes :
       Mutates("Color24::Clamp", <<VU(lo), VU(hi)>>, AsColor24(Color24_Clamp(obj.Color24, lo, hi)))
Color24ClampMin ==
  /\ IsColor24(obj)
  /\ \E lo \in LimitBytes :
       Mutates("Color24::ClampMin", <<VU(lo)>>, AsColor24(Color24_ClampMin(obj.Color24, lo)))
Color24ClampMax ==
  /\ IsColor24(obj)
  /\ \E hi \in LimitBytes :
       Mutates("Color24::ClampMax", <<VU(hi)>>, AsColor24(Color24_ClampMax(obj.Color24, hi)))
Color32Clamp ==
  /\ IsColor32(obj)
  /\ \E lo \in LimitBytes, hi \in LimitBytes :
       Mutates("Color32::Clamp", <<VU(lo), VU(hi)>>, AsColor32(Color32_Clamp(obj.Color32, lo, hi)))
Color32ClampMin ==
  /\ IsColor32(obj)
  /\ \E lo \in LimitBytes :
       Mutates("Color32::ClampMin", <<VU(lo)>>, AsColor32(Color32_ClampMin(obj.Color32, lo)))
Color32ClampMax ==
  /\ IsColor32(obj)
  /\ \E hi \in LimitBytes :
       Mutates("Color32::ClampMax", <<VU(hi)>>, AsColor32(Color32_ClampMax(obj.Color32, hi)))

\* values with components below, inside and above the limits, in every
\* order, and with a negative zero, an infinity and a NaN
LimitColor ==
  {MkColor(IntToFloat(0 - 1), F_Half, IntToFloat(2)),
   MkColor(IntToFloat(2), IntToFloat(0 - 1), F_Half),
   MkColor(F_Half, IntToFloat(2), IntToFloat(0 - 1)),
   MkColor(Dy(0 - 1, 2), Dy(3, 2), Dy(5, 2)),
   MkColor(FZero(1), FInf(1), FNaN),
   MkColor(FNaN, FInf(0), IntToFloat(0 - 3))}
LimitColorA ==
  {MkColorA(c.r, c.g, c.b, w) : c \in LimitColor,
                                w \in {F_One, IntToFloat(0 - 3), FZero(1)}}
LimitColor24 ==
  {MkColor24(50, 150, 250), MkColor24(250, 50, 150), MkColor24(150, 250, 50),
   MkColor24(0, 100, 255), MkColor24(200, 201, 99)}
LimitColor32 ==
  {MkColor32(c.r, c.g, c.b, w) : c \in LimitColor24, w \in {0, 150, 255}}

InitLimit ==
  \/ Start({AsColor(c) : c \in LimitColor})
  \/ Start({AsColorA(c) : c \in LimitColorA})
  \/ Start({AsColor24(c) : c \in LimitColor24})
  \/ Start({AsColor32(c) : c \in LimitColor32})

NextLimit ==
  \/ ColorClamp \/ ColorClampMin \/ ColorClampMax \/ ColorAbs
  \/ ColorApply \/ ColorGetApplied \/ AbsColor
  \/ ColorAClamp \/ ColorAClampMin \/ ColorAClampMax \/ ColorAAbs
  \/ ColorAApply \/ ColorAGetApplied \/ AbsColorA
  \/ Color24Clamp \/ Color24ClampMin \/ Color24ClampMax
  \/ Color32Clamp \/ Color32ClampMin \/ Color32ClampMax

SpecLimit == InitLimit /\ [][NextLimit]_vars
\* --- claims about the limit methods and Apply ---------------------------
RGB == {"r", "g", "b"}
\* y is x limited to [lo, hi]
Clamped(x, y, lo, hi) ==
  /\ FLt(x, lo) => y = lo
  /\ FGt(x, hi) => y = hi
  /\ (FLe(lo, x) /\ FLe(x, hi)) => y = x
\* y is x limited from below by lo only, and from above by hi only
ClampedBelow(x, y, lo) == (FLt(x, lo) => y = lo) /\ (FGe(x, lo) => y = x)
ClampedAbove(x, y, hi) == (FGt(x, hi) => y = hi) /\ (FLe(x, hi) => y = x)

\* C6: after Color::Clamp(limitMin, limitMax) with limitMin <= limitMax each
\* of r, g, b is the old value limited to the range: unchanged when inside,
\* limitMin when smaller, limitMax when larger; Color(-1, 0.5, 2).Clamp()
\* is Color(0, 0.5, 1); ClampMin applies only the lower bound and ClampMax
\* only the upper bound.
C6_ColorClampBounds ==
  /\ (op = "Color::Clamp" /\ FLe(args[1].f, args[2].f)) =>
       \A k \in RGB : Clamped(old.Color[k], obj.Color[k], args[1].f, args[2].f)
  /\ (/\ op = "Color::Clamp"
      /\ old = AsColor(MkColor(IntToFloat(0 - 1), F_Half, IntToFloat(2)))
      /\ args = <<VF(FZero(0)), VF(F_One)>>) =>
       obj = AsColor(MkColor(FZero(0), F_Half, F_One))
  /\ op = "Color::ClampMin" =>
       \A k \in RGB : ClampedBelow(old.Color[k], obj.Color[k], args[1].f)
  /\ op = "Color::ClampMax" =>
       \A k \in RGB : ClampedAbove(old.Color[k], obj.Color[k], args[1].f)

C6_Witness ==
  /\ op = "Color::Clamp"
  /\ old = AsColor(MkColor(IntToFloat(0 - 1), F_Half, IntToFloat(2)))
  /\ args = <<VF(FZero(0)), VF(F_One)>>
  /\ obj = AsColor(MkColor(FZero(0), F_Half, F_One))

ClampOps == {"Color::Clamp", "ColorA::Clamp", "Color24::Clamp", "Color32::Clamp"}
\* the bound passed as n-th argument, and the order of the component type
Limit(n) == IF IsFloatType(obj) THEN args[n].f ELSE args[n].u
Exceeds(x, y) == IF IsFloatType(obj) THEN FGt(x, y) ELSE x > y
\* the components Clamp works on
ClampedComponents == IF IsColor32(obj) THEN {"r", "g", "b", "a"} ELSE RGB
\* the same Clamp applied to the value at hand once more
ClampedAgain ==
  LET lo == Limit(1)
      hi == Limit(2)
  IN CASE op = "Color::Clamp"   -> AsColor(Color_Clamp(obj.Color, lo, hi))
       [] op = "ColorA::Clamp"  -> AsColorA(ColorA_Clamp(obj.ColorA, lo, hi))
       [] op = "Color24::Clamp" -> AsColor24(Color24_Clamp(obj.Color24, lo, hi))
       [] op = "Color32::Clamp" -> AsColor32(Color32_Clamp(obj.Color32, lo, hi))

\* C13: Clamp(limitMin, limitMax) applies ClampMin first and ClampMax second:
\* for any bounds, limitMin > limitMax included, no clamped component exceeds
\* limitMax afterwards; when limitMin > limitMax every clamped component ends
\* equal to limitMax; the same Clamp applied again changes nothing.  The
\* clamped components are r, g, b for Color, ColorA and Color24 (the alpha of
\* a ColorA stays as it was) and r, g, b, a for Color32.
C13_ClampUpperBoundWins ==
  op \in ClampOps =>
    LET c == Inner(obj) IN
    /\ \A k \in ClampedComponents : ~Exceeds(c[k], Limit(2))
    /\ Exceeds(Limit(1), Limit(2)) => \A k \in ClampedComponents : c[k] = Limit(2)
    /\ ClampedAgain = obj
    /\ op = "ColorA::Clamp" => c.a = old.ColorA.a

C13_Witness ==
  /\ op = "Color32::Clamp"
  /\ args = <<VU(200), VU(100)>>
  /\ old = AsColor32(MkColor32(50, 150, 250, 0))
  /\ obj = AsColor32(MkColor32(100, 100, 100, 100))

\* every stored component of y is the absolute value of that component of x
AbsOfAll(x, y) == \A k \in DOMAIN x : y[k] = FAbs(x[k])

\* C7: after the member Abs() on a Color or ColorA, and in the value
\* returned by the free function Abs(c), every stored component (r, g, b,
\* and a for ColorA) is the absolute value of the input component, and
\* IsNegative() is false on the result.
C7_AbsAllComponents ==
  /\ op = "Color::Abs" =>
       AbsOfAll(old.Color, obj.Color) /\ ~Color_IsNegative(obj.Color)
  /\ op = "ColorA::Abs" =>
       AbsOfAll(old.ColorA, obj.ColorA) /\ ~ColorA_IsNegative(obj.ColorA)
  /\ op = "Abs(Color)" =>
       AbsOfAll(obj.Color, ret.Color) /\ ~Color_IsNegative(ret.Color)
  /\ op = "Abs(ColorA)" =>
       AbsOfAll(obj.ColorA, ret.ColorA) /\ ~ColorA_IsNegative(ret.ColorA)

\* the callable a call was made with
FuncArg == CHOOSE func \in Funcs : VFn(func) = args[1]
\* r, g and b of y are func of r, g and b of x
AppliedRGB(x, y) == \A k \in RGB : y[k] = Call(FuncArg, x[k])

\* C8: Apply(f) on a Color or ColorA overwrites exactly r, g and b with
\* f(r), f(g), f(b) and leaves the alpha of a ColorA unchanged;
\* GetApplied(f) returns that result as a new value and leaves the object
\* it is called on unchanged in every component.
C8_ApplyFrame ==
  /\ op = "Color::Apply" => AppliedRGB(old.Color, obj.Color)
  /\ op = "ColorA::Apply" =>
       AppliedRGB(old.ColorA, obj.ColorA) /\ obj.ColorA.a = old.ColorA.a
  /\ op = "Color::GetApplied" => AppliedRGB(old.Color, ret.Color) /\ obj = old
  /\ op = "ColorA::GetApplied" =>
       /\ AppliedRGB(old.ColorA, ret.ColorA)
       /\ ret.ColorA.a = old.ColorA.a
       /\ obj = old

C8_Witness ==
  /\ op = "ColorA::Apply"
  /\ args = <<VFn(Negate)>>
  /\ old = AsColorA(MkColorA(IntToFloat(0 - 1), F_Half, IntToFloat(2), IntToFloat(0 - 3)))
  /\ obj = AsColorA(MkColorA(F_One, Dy(0 - 1, 1), IntToFloat(0 - 2), IntToFloat(0 - 3)))
\* ------------------------------------------------------------------------
\* Unary and binary operators with a scalar
\* ------------------------------------------------------------------------
Color_Negate(c) == MkColor(FNeg(c.r), FNeg(c.g), FNeg(c.b))
Color_Plus_Float(c, n)  == MkColor(FAdd(c.r, n), FAdd(c.g, n), FAdd(c.b, n))
Color_Minus_Float(c, n) == MkColor(FSub(c.r, n), FSub(c.g, n), FSub(c.b, n))
Color_Times_Float(c, n) == MkColor(FMul(c.r, n), FMul(c.g, n), FMul(c.b, n))
Float_Plus_Color(v, c)  == Color_Plus_Float(c, v)
\* c-v without the negation
Float_Minus_Color_Unnegated(v, c) == Color_Minus_Float(c, v)
Float_Minus_Color(v, c) == Color_Negate(Color_Minus_Float(c, v))
Float_Times_Color(v, c) == Color_Times_Float(c, v)
Color_Equals(x, c) == FEq(c.r, x.r) /\ FEq(c.g, x.g) /\ FEq(c.b, x.b)

ColorA_Negate(c) == MkColorA(FNeg(c.r), FNeg(c.g), FNeg(c.b), FNeg(c.a))
ColorA_Plus_Float(c, n)  == MkColorA(FAdd(c.r, n), FAdd(c.g, n), FAdd(c.b, n), FAdd(c.a, n))
ColorA_Minus_Float(c, n) == MkColorA(FSub(c.r, n), FSub(c.g, n), FSub(c.b, n), FSub(c.a, n))
ColorA_Times_Float(c, n) == MkColorA(FMul(c.r, n), FMul(c.g, n), FMul(c.b, n), FMul(c.a, n))
Float_Plus_ColorA(v, c)  == ColorA_Plus_Float(c, v)
Float_Minus_ColorA(v, c) == ColorA_Negate(ColorA_Minus_Float(c, v))
Float_Times_ColorA(v, c) == ColorA_Times_Float(c, v)

\* 0.1f
F_Tenth == Pack(0, 13421773, 0 - 27)
\* scalars: exact and inexact operands, both zeros, an infinity and a NaN
ArithScalars == {IntToFloat(2), F_Tenth, IntToFloat(3), FZero(0), FInf(1), FNaN}
ArithFloats  == {FZero(1), F_Tenth, IntToFloat(3), FInf(0), FNaN}
ArithColor ==
  {MkColor(x, y, z) : x \in ArithFloats, y \in ArithFloats, z \in ArithFloats}
    \cup {MkColor(F_One, IntToFloat(2), IntToFloat(3))}
ArithColorA ==
  {MkColorA(c.r, c.g, c.b, w) : c \in ArithColor, w \in {F_One, IntToFloat(3)}}

FloatPlusColor ==
  /\ IsColor(obj)
  /\ \E v \in ArithScalars :
       Returns("operator+(float,Color)", <<VF(v)>>, AsColor(Float_Plus_Color(v, obj.Color)))
FloatMinusColor ==
  /\ IsColor(obj)
  /\ \E v \in ArithScalars :
       Returns("operator-(float,Color)", <<VF(v)>>, AsColor(Float_Minus_Color(v, obj.Color)))
FloatTimesColor ==
  /\ IsColor(obj)
  /\ \E v \in ArithScalars :
       Returns("operator*(float,Color)", <<VF(v)>>, AsColor(Float_Times_Color(v, obj.Color)))

FloatPlusColorA ==
  /\ IsColorA(obj)
  /\ \E v \in ArithScalars :
       Returns("operator+(float,ColorA)", <<VF(v)>>, AsColorA(Float_Plus_ColorA(v, obj.ColorA)))
FloatMinusColorA ==
  /\ IsColorA(obj)
  /\ \E v \in ArithScalars :
       Returns("operator-(float,ColorA)", <<VF(v)>>, AsColorA(Float_Minus_ColorA(v, obj.ColorA)))
FloatTimesColorA ==
  /\ IsColorA(obj)
  /\ \E v \in ArithScalars :
       Returns("operator*(float,ColorA)", <<VF(v)>>, AsColorA(Float_Times_ColorA(v, obj.ColorA)))

InitArith ==
  \/ Start({AsColor(c) : c \in ArithColor})
  \/ Start({AsColorA(c) : c \in ArithColorA})

NextArith ==
  \/ FloatPlusColor \/ FloatMinusColor \/ FloatTimesColor
  \/ FloatPlusColorA \/ FloatMinusColorA \/ FloatTimesColorA

SpecArith == InitArith /\ [][NextArith]_vars

\* x and y are the same number: equal under the float ==, or both NaN
SameF(x, y) == FEq(x, y) \/ (IsNaN(x) /\ IsNaN(y))
\* every stored component of x is the same number as that component of y
SameColor(x, y) == \A k \in DOMAIN x : SameF(x[k], y[k])
\* the float operator o on x and y
Bin(o, x, y) == CASE o = "+" -> FAdd(x, y) [] o = "-" -> FSub(x, y) [] o = "*" -> FMul(x, y)
\* every stored component of x is v o that component of c
ScalarFirst(x, v, c, o) == \A k \in DOMAIN c : SameF(x[k], Bin(o, v, c[k]))

\* C9: for every scalar v and every Color or ColorA c, v + c is c + v, v * c
\* is c * v, and every stored component of v - c (alpha included) is v minus
\* that component of c; 2 * Color(1,2,3) is Color(1,2,3) * 2 is Color(2,4,6).
C9_ScalarFirstOperators ==
  LET v == args[1].f
  IN /\ op = "operator+(float,Color)" =>
          /\ SameColor(ret.Color, Color_Plus_Float(obj.Color, v))
          /\ ScalarFirst(ret.Color, v, obj.Color, "+")
     /\ op = "operator*(float,Color)" =>
          /\ SameColor(ret.Color, Color_Times_Float(obj.Color, v))
          /\ ScalarFirst(ret.Color, v, obj.Color, "*")
     /\ op = "operator-(float,Color)" => ScalarFirst(ret.Color, v, obj.Color, "-")
     /\ op = "operator+(float,ColorA)" =>
          /\ SameColor(ret.ColorA, ColorA_Plus_Float(obj.ColorA, v))
          /\ ScalarFirst(ret.ColorA, v, obj.ColorA, "+")
     /\ op = "operator*(float,ColorA)" =>
          /\ SameColor(ret.ColorA, ColorA_Times_Float(obj.ColorA, v))
          /\ ScalarFirst(ret.ColorA, v, obj.ColorA, "*")
     /\ op = "operator-(float,ColorA)" => ScalarFirst(ret.ColorA, v, obj.ColorA, "-")
     /\ (/\ op = "operator*(float,Color)"
         /\ obj = AsColor(MkColor(F_One, IntToFloat(2), IntToFloat(3)))
         /\ v = IntToFloat(2)) =>
          /\ ret = AsColor(MkColor(IntToFloat(2), IntToFloat(4), IntToFloat(6)))
          /\ Color_Equals(ret.Color, Color_Times_Float(obj.Color, v))

C9_Witness ==
  /\ op = "operator-(float,ColorA)"
  /\ args = <<VF(IntToFloat(3))>>
  /\ obj = AsColorA(MkColorA(F_Tenth, IntToFloat(3), FInf(0), F_One))
  /\ ret = AsColorA(MkColorA(FSub(IntToFloat(3), F_Tenth), FZero(1), FInf(1), IntToFloat(2)))
\* ------------------------------------------------------------------------
\* Test operators: x is the object, c the operand
\* ------------------------------------------------------------------------
Color_NotEquals(x, c) == FNe(c.r, x.r) \/ FNe(c.g, x.g) \/ FNe(c.b, x.b)
ColorA_Equals(x, c) == FEq(c.r, x.r) /\ FEq(c.g, x.g) /\ FEq(c.b, x.b) /\ FEq(c.a, x.a)
\* != that leaves alpha out
ColorA_NotEquals_NoAlpha(x, c) == FNe(c.r, x.r) \/ FNe(c.g, x.g) \/ FNe(c.b, x.b)
ColorA_NotEquals(x, c) == FNe(c.r, x.r) \/ FNe(c.g, x.g) \/ FNe(c.b, x.b) \/ FNe(c.a, x.a)
Color24_Equals(x, c) == (c.r = x.r) /\ (c.g = x.g) /\ (c.b = x.b)
Color24_NotEquals(x, c) == (c.r # x.r) \/ (c.g # x.g) \/ (c.b # x.b)
Color32_Equals(x, c) == (c.r = x.r) /\ (c.g = x.g) /\ (c.b = x.b) /\ (c.a = x.a)
Color32_NotEquals(x, c) == (c.r # x.r) \/ (c.g # x.g) \/ (c.b # x.b) \/ (c.a # x.a)

\* operands: both zeros, a NaN and ordinary values in every position
TestColor ==
  LET V == {FZero(0), FZero(1), F_One, FNaN}
  IN {MkColor(x, y, z) : x \in V, y \in V, z \in V}
TestColorA ==
  {MkColorA(x, y, z, w) : x \in {FZero(0), FNaN}, y \in {FZero(0), FZero(1)},
                          z \in {FZero(0), F_One}, w \in {FZero(0), FZero(1), F_One, FNaN}}
TestColor24 ==
  LET V == {0, 1, 255}
  IN {MkColor24(x, y, z) : x \in V, y \in V, z \in V}
TestColor32 ==
  {MkColor32(x, y, z, w) : x \in {0, 255}, y \in {0, 255}, z \in {0, 255}, w \in {0, 1, 255}}

ColorEquals ==
  /\ IsColor(obj)
  /\ \E c \in TestColor :
       Returns("Color::operator==", <<AsColor(c)>>, VB(Color_Equals(obj.Color, c)))
ColorNotEquals ==
  /\ IsColor(obj)
  /\ \E c \in TestColor :
       Returns("Color::operator!=", <<AsColor(c)>>, VB(Color_NotEquals(obj.Color, c)))
ColorAEquals ==
  /\ IsColorA(obj)
  /\ \E c \in TestColorA :
       Returns("ColorA::operator==", <<AsColorA(c)>>, VB(ColorA_Equals(obj.ColorA, c)))
ColorANotEquals ==
  /\ IsColorA(obj)
  /\ \E c \in TestColorA :
       Returns("ColorA::operator!=", <<AsColorA(c)>>, VB(ColorA_NotEquals(obj.ColorA, c)))
Color24Equals ==
  /\ IsColor24(obj)
  /\ \E c \in TestColor24 :
       Returns("Color24::operator==", <<AsColor24(c)>>, VB(Color24_Equals(obj.Color24, c)))
Color24NotEquals ==
  /\ IsColor24(obj)
  /\ \E c \in TestColor24 :
       Returns("Color24::operator!=", <<AsColor24(c)>>, VB(Color24_NotEquals(obj.Color24, c)))
Color32Equals ==
  /\ IsColor32(obj)
  /\ \E c \in TestColor32 :
       Returns("Color32::operator==", <<AsColor32(c)>>, VB(Color32_Equals(obj.Color32, c)))
Color32NotEquals ==
  /\ IsColor32(obj)
  /\ \E c \in TestColor32 :
       Returns("Color32::operator!=", <<AsColor32(c)>>, VB(Color32_NotEquals(obj.Color32, c)))

InitTest ==
  \/ Start({AsColor(c) : c \in TestColor})
  \/ Start({AsColorA(c) : c \in TestColorA})
  \/ Start({AsColor24(c) : c \in TestColor24})
  \/ Start({AsColor32(c) : c \in TestColor32})

NextTest ==
  \/ ColorEquals \/ ColorNotEquals \/ ColorAEquals \/ ColorANotEquals
  \/ Color24Equals \/ Color24NotEquals \/ Color32Equals \/ Color32NotEquals

SpecTest == InitTest /\ [][NextTest]_vars

\* what the other test operator of the type returns for the same operands
OtherTest ==
  LET x == Inner(obj)
      c == Inner(args[1])
  IN CASE op = "Color::operator=="   -> Color_NotEquals(x, c)
       [] op = "Color::operator!="   -> Color_Equals(x, c)
       [] op = "ColorA::operator=="  -> ColorA_NotEquals(x, c)
       [] op = "ColorA::operator!="  -> ColorA_Equals(x, c)
       [] op = "Color24::operator==" -> Color24_NotEquals(x, c)
       [] op = "Color24::operator!=" -> Color24_Equals(x, c)
       [] op = "Color32::operator==" -> Color32_NotEquals(x, c)
       [] op = "Color32::operator!=" -> Color32_Equals(x, c)
\* some stored component of the object differs from that of the operand:
\* != of the component type, under which a NaN differs from everything and
\* the two zeros do not differ
SomeComponentDiffers ==
  LET x == Inner(obj)
      c == Inner(args[1])
  IN \E k \in DOMAIN x : IF IsFloatType(obj) THEN FNe(x[k], c[k]) ELSE x[k] # c[k]
NotEqualsOps ==
  {"Color::operator!=", "ColorA::operator!=", "Color24::operator!=", "Color32::operator!="}
EqualsOps ==
  {"Color::operator==", "ColorA::operator==", "Color24::operator==", "Color32::operator=="}

\* C12: for each of the four types and all operands, operator!= returns the
\* negation of operator==: two values are unequal exactly when at least one
\* stored component differs (alpha included for ColorA and Color32); no
\* pair is both equal and unequal, or neither.
C12_NotEqualsNegatesEquals ==
  /\ op \in NotEqualsOps => (ret.bool = ~OtherTest /\ ret.bool = SomeComponentDiffers)
  /\ op \in EqualsOps    => (ret.bool = ~OtherTest /\ ret.bool = ~SomeComponentDiffers)

\* two ColorA that differ in alpha only are unequal
C12_Witness ==
  /\ op = "ColorA::operator!="
  /\ obj = AsColorA(MkColorA(FZero(0), FZero(1), F_One, F_One))
  /\ args = <<AsColorA(MkColorA(FZero(0), FZero(0), F_One, FZero(0)))>>
  /\ ret = VB(TRUE)
====
